---------------------------- MODULE Spec2Model ----------------------------
(***************************************************************************)
(* A model of rtwo/meta.py: the Meta registry (Meta.metas, create_meta,    *)
(* get_meta, get_metas, reset), the OpenStack capacity arithmetic          *)
(* (total_remaining, _cpu_stats, _ram_stats, _disk_stats, occupancy), the  *)
(* image metadata tagging and the bulk stop/destroy operations of OSMeta.  *)
(***************************************************************************)
EXTENDS Integers, Sequences, FiniteSets, TLC

VARIABLES
    \* ---- registry (class Meta and its subclasses) ----
    metas,      \* [Classes -> dict]: the `metas` attribute each class object holds
    own,        \* the subclasses that hold a `metas` attribute of their own
    created,    \* every Meta instance constructed so far, in order; the index is the instance
    epoch,      \* Len(created) when reset was last called
    last,       \* the last call made on the registry and the get_meta call it follows
    \* ---- capacity arithmetic ----
    build,      \* word size of the interpreter build (sys.maxint is 2^(build-1) - 1)
    stat,       \* the last call of _cpu_stats/_ram_stats/_disk_stats and what it returned
    sizes,      \* the size objects admin_driver.list_sizes() returns, with their extra
    occCalls,   \* number of occupancy() calls made
    lastOcc,    \* the hypervisor statistics the last occupancy() call read
    \* ---- image metadata ----
    image_metadata, \* [Machines -> dict]: the metadata the provider stores per image
    mdCalls,        \* connection calls made by the last add/remove_metadata_deployed
    mdOp,           \* the last metadata operation and the metadata it read
    \* ---- bulk operations ----
    pc,         \* position of the bulk operation in progress
    op,         \* the bulk operation called and its destroy argument
    instances,  \* what all_instances() returned to it
    usernames,  \* what list_usergroup_names() returned to it
    idx,        \* loop index
    calls,      \* driver / network manager calls attempted, in order, with their outcome
    result      \* what the bulk operation gave its caller

regVars  == <<metas, own, created, epoch, last>>
capVars  == <<build, stat, sizes, occCalls, lastOcc>>
mdVars   == <<image_metadata, mdCalls, mdOp>>
bulkVars == <<pc, op, instances, usernames, idx, calls, result>>
vars     == <<regVars, capVars, mdVars, bulkVars>>

-----------------------------------------------------------------------------
(* Generic helpers                                                          *)

EmptyDict == [k \in {} |-> 0]

DictPut(d, k, v) == [x \in (DOMAIN d) \cup {k} |-> IF x = k THEN v ELSE d[x]]

\* dict.update(other): entries of other override
DictUpdate(d, other) ==
    [x \in (DOMAIN d) \cup (DOMAIN other) |-> IF x \in DOMAIN other THEN other[x] ELSE d[x]]

-----------------------------------------------------------------------------------------------------------------------------------------------------
(* Registry                                                                 *)

MaxMetas == 2       \* bound on the number of Meta instances constructed

SubClasses == {"AWSMeta", "EucaMeta", "OSMeta"}
Classes    == {"Meta"} \cup SubClasses

\* Provider objects a driver may carry in driver.provider: a provider class
\* object itself or an instance of one (OSProvider() as in create_admin_driver).
ProviderClasses   == {"AWSProvider", "EucaProvider", "OSProvider"}
ProviderInstances == {"os_provider_1"}
Providers         == {"AWSProvider", "OSProvider"} \cup ProviderInstances
Identities        == {"identity_a", "identity_b"}

\* driver.provider.metaCls
metaCls(p) ==
    CASE p = "AWSProvider"                      -> "AWSMeta"
      [] p = "EucaProvider"                     -> "EucaMeta"
      [] p \in {"OSProvider", "os_provider_1"}  -> "OSMeta"

\* the class attribute `provider` of each Meta class (None on the base class)
provider(cls) ==
    CASE cls = "Meta"     -> "None"
      [] cls = "AWSMeta"  -> "AWSProvider"
      [] cls = "EucaMeta" -> "EucaProvider"
      [] cls = "OSMeta"   -> "OSProvider"

Drivers == [provider : Providers, identity : Identities]

\* attribute lookup cls.metas: the class's own attribute, else the one of Meta
ClsMetas(cls) == IF cls \in own \cup {"Meta"} THEN metas[cls] ELSE metas["Meta"]

\* cls.metas[key] = meta mutates the dict that the attribute lookup found
StoreIn(cls) == IF cls \in own \cup {"Meta"} THEN cls ELSE "Meta"

NoDriver == [provider |-> "None", identity |-> "None"]

\* What is remembered of the calls made: the last call (op, cls, driver, result,
\* constructed) and the get_meta call it follows (gcls, gdriver, gresult), when it
\* follows one directly ("repeat") or with only reset() calls in between
\* ("after_reset").  A reset carries the get_meta call before it along.
NoCall == [op |-> "none", cls |-> "None", driver |-> NoDriver, result |-> 0,
           constructed |-> FALSE, follows |-> "none",
           gcls |-> "None", gdriver |-> NoDriver, gresult |-> 0]

Observe(o, cls, driver, returned, constructed) ==
    LET carried == last.op = "get_meta" \/ (last.op = "reset" /\ last.follows # "none")
        g == IF last.op = "get_meta"
             THEN [cls |-> last.cls, driver |-> last.driver, result |-> last.result]
             ELSE [cls |-> last.gcls, driver |-> last.gdriver, result |-> last.gresult]
    IN [op |-> o, cls |-> cls, driver |-> driver, result |-> returned,
        constructed |-> constructed,
        follows |-> IF ~carried \/ o = "create_meta" THEN "none"
                    ELSE IF o = "reset" \/ last.op = "reset" THEN "after_reset"
                    ELSE "repeat",
        gcls    |-> IF carried /\ o # "create_meta" THEN g.cls ELSE "None",
        gdriver |-> IF carried /\ o # "create_meta" THEN g.driver ELSE NoDriver,
        gresult |-> IF carried /\ o # "create_meta" THEN g.result ELSE 0]

\* Meta.create_meta(cls, driver, admin_driver)
create_meta(cls, driver, admin_driver, caller) ==
    /\ Len(created) < MaxMetas
    /\ LET meta == Len(created) + 1
           key  == <<driver.provider, driver.identity>>
       IN /\ created' = Append(created, [cls |-> metaCls(driver.provider), key |-> key])
          /\ metas' = [metas EXCEPT ![StoreIn(cls)] = DictPut(@, key, meta)]
          /\ last' = Observe(caller, cls, driver, meta, TRUE)
    /\ UNCHANGED <<own, epoch>>

CreateMeta(cls, driver, admin_driver) ==
    /\ create_meta(cls, driver, admin_driver, "create_meta")
    /\ UNCHANGED <<capVars, mdVars, bulkVars>>

\* the key get_meta looks up
lookup_key(cls, driver) == <<provider(cls), driver.identity>>

\* Meta.get_meta(cls, driver)
get_meta(cls, driver) ==
    LET id == lookup_key(cls, driver)
    IN IF id \in DOMAIN ClsMetas(cls)
       THEN /\ last' = Observe("get_meta", cls, driver, ClsMetas(cls)[id], FALSE)
            /\ UNCHANGED <<metas, own, created, epoch>>
       ELSE create_meta(cls, driver, "None", "get_meta")

GetMeta(cls, driver) ==
    /\ get_meta(cls, driver)
    /\ UNCHANGED <<capVars, mdVars, bulkVars>>

\* Meta.get_metas(): the three provider classes' metaCls.metas merged in order
get_metas ==
    DictUpdate(DictUpdate(DictUpdate(EmptyDict, ClsMetas(metaCls("AWSProvider"))),
                          ClsMetas(metaCls("EucaProvider"))),
               ClsMetas(metaCls("OSProvider")))

\* Meta.reset: the classmethod (the second definition of the name in the class body)
reset(cls) ==
    /\ metas' = [metas EXCEPT ![cls] = EmptyDict]
    /\ own' = IF cls \in SubClasses THEN own \cup {cls} ELSE own
    /\ epoch' = Len(created)
    /\ last' = Observe("reset", cls, NoDriver, 0, FALSE)
    /\ UNCHANGED created

Reset(cls) ==
    /\ reset(cls)
    /\ UNCHANGED <<capVars, mdVars, bulkVars>>

\* meta.reset() on an instance: the classmethod bound to the instance's class
ResetThroughInstance(meta) ==
    /\ reset(created[meta].cls)
    /\ UNCHANGED <<capVars, mdVars, bulkVars>>

RegInit ==
    /\ metas = [c \in Classes |-> EmptyDict]
    /\ own = {}
    /\ created = <<>>
    /\ epoch = 0
    /\ last = NoCall

-----
(* Numbers                                                                  *)
(* The values the capacity arithmetic handles are small counters and the    *)
(* sentinel sys.maxint, which is 2^63 - 1 on a 64-bit build.  A number is   *)
(* written [hi, lo] and stands for hi * 2^63 + lo, with |lo| < 2^62.        *)

Small(n) == [hi |-> 0, lo |-> n]

\* sys.maxint of the interpreter build
sys_maxint == IF build = 64 THEN [hi |-> 1, lo |-> -1] ELSE Small(2147483647)

\* float(x): a double holds 53 bits, so every |x| < 2^53 is exact and the
\* integers around 2^63 round to the nearest multiple of the spacing there
\* (1024 below 2^63, 2048 above), ties to even
float(x) ==
    IF x.hi = 0 THEN x
    ELSE IF x.lo >= -512 /\ x.lo <= 1024 THEN [hi |-> x.hi, lo |-> 0]
    ELSE x

Less(a, b) == a.hi < b.hi \/ (a.hi = b.hi /\ a.lo < b.lo)

\* min(a, b, c) of Python: the first smallest argument
min(a, b, c) ==
    LET m == IF Less(b, a) THEN b ELSE a
    IN IF Less(c, m) THEN c ELSE m

\* a / b on two Python 2 ints (floor division), b # 0
IntDiv(a, b) == IF b > 0 THEN a \div b ELSE (0 - a) \div (0 - b)

\* the value handed to total_remaining as max_: a float quotient or an int
Quotient(n, d) == [kind |-> "float", n |-> n, d |-> d, v |-> Small(0)]
Whole(v)       == [kind |-> "int", n |-> 0, d |-> 1, v |-> v]

\* math.floor(x): converts to a double and returns the floored double.  The
\* quotients of the counters modelled are far below 2^53, where the floor of
\* the rounded quotient is the floor of the exact one.
floor(x) ==
    IF x.kind = "float" THEN Small(IntDiv(x.n, x.d)) ELSE float(x.v)

-----------------------------------------------------------------------------
(* Capacity arithmetic of OSMeta                                            *)

MaxFootprint == 4    \* bound on the per-size footprints tried
MaxTotal     == 8    \* bound on the hypervisor counters tried

Footprints == (0 - 2)..MaxFootprint
Totals     == (0..MaxTotal) \cup {32}
Useds      == (0..MaxTotal) \cup {16, 40}

\* the attributes a provider's raw size object may carry for its CPU count
AttrSets == {{}, {"cpu"}, {"vcpus"}, {"cpu", "vcpus"}}

RawSize(attrs, cpu, vcpus, ram, disk) ==
    [attrs |-> attrs, cpu |-> cpu, vcpus |-> vcpus, ram |-> ram, disk |-> disk]

\* The wrapper's own fields size.cpu and size.ram, set by the Size class from
\* the raw size it wraps: the per-size footprint of the dimension.
size_cpu(raw) == IF "cpu" \in raw.attrs THEN raw.cpu
                 ELSE IF "vcpus" \in raw.attrs THEN raw.vcpus ELSE 0 - 1
size_ram(raw) == raw.ram

Ret(max_, remaining) == [raised |-> "None", max |-> max_, remaining |-> remaining]
ZeroDivisionError    == [raised |-> "ZeroDivisionError", max |-> Small(0), remaining |-> Small(0)]

\* a / b rounding toward zero, as C division does
TruncDiv(a, b) ==
    LET abs(x) == IF x < 0 THEN 0 - x ELSE x
        q == abs(a) \div abs(b)
    IN IF (a < 0) = (b < 0) THEN q ELSE 0 - q

\* total_remaining with a division that rounds toward zero
total_remaining_truncating(max_, total, used, size) ==
    IF size # 0
    THEN Ret(floor(max_), floor(Whole(Small(TruncDiv(total - used, size)))))
    ELSE Ret(floor(max_), sys_maxint)

\* total_remaining without the test of size against zero
total_remaining_unguarded(max_, total, used, size) ==
    IF size = 0 THEN ZeroDivisionError
    ELSE Ret(floor(max_), floor(Whole(Small(IntDiv(total - used, size)))))

\* OSMeta.total_remaining(max_, total, used, size)
total_remaining(max_, total, used, size) ==
    IF size # 0
    THEN Ret(floor(max_), floor(Whole(Small(IntDiv(total - used, size)))))
    ELSE Ret(floor(max_), sys_maxint)

\* OSMeta._cpu_stats(size, cpu_total, cpu_used)
cpu_stats(size, cpu_total, cpu_used) ==
    LET cpu_count == IF "cpu" \in size.attrs THEN size.cpu
                     ELSE IF "vcpus" \in size.attrs THEN size.vcpus
                     ELSE 0 - 1
    IN IF cpu_count > 0
       THEN IF size_cpu(size) = 0 THEN ZeroDivisionError
            ELSE total_remaining(Quotient(cpu_total, size_cpu(size)),
                                 cpu_total, cpu_used, cpu_count)
       ELSE total_remaining(Whole(sys_maxint), cpu_total, cpu_used, cpu_count)

\* OSMeta._ram_stats(size, ram_total, ram_used)
ram_stats(size, ram_total, ram_used) ==
    LET max_by_ram == IF size.ram > 0 THEN Quotient(ram_total, size.ram)
                      ELSE Whole(sys_maxint)
    IN total_remaining(max_by_ram, ram_total, ram_used, size_ram(size))

\* OSMeta._disk_stats(size, disk_total, disk_used)
disk_stats(size, disk_total, disk_used) ==
    LET max_by_disk == IF size.disk > 0 THEN Quotient(disk_total, size.disk)
                       ELSE Whole(sys_maxint)
    IN total_remaining(max_by_disk, disk_total, disk_used, size.disk)

NoStat == [fn |-> "none", size |-> RawSize({}, 0, 0, 0, 0), total |-> 0, used |-> 0,
           ret |-> Ret(Small(0), Small(0))]

CpuSizes  == {RawSize(a, c, v, 0, 0) : a \in AttrSets, c \in Footprints, v \in Footprints}
RamSizes  == {RawSize({}, 0, 0, r, 0) : r \in Footprints}
DiskSizes == {RawSize({}, 0, 0, 0, d) : d \in Footprints}

\* _cpu_stats is called with a size and two counters
CpuStats ==
    /\ stat = NoStat
    /\ \E size \in CpuSizes, t \in Totals, u \in Useds :
          stat' = [fn |-> "_cpu_stats", size |-> size, total |-> t, used |-> u,
                   ret |-> cpu_stats(size, t, u)]
    /\ UNCHANGED <<build, sizes, occCalls, lastOcc, regVars, mdVars, bulkVars>>

\* _ram_stats is called with a size and two counters
RamStats ==
    /\ stat = NoStat
    /\ \E size \in RamSizes, t \in Totals, u \in Useds :
          stat' = [fn |-> "_ram_stats", size |-> size, total |-> t, used |-> u,
                   ret |-> ram_stats(size, t, u)]
    /\ UNCHANGED <<build, sizes, occCalls, lastOcc, regVars, mdVars, bulkVars>>

\* _disk_stats is called with a size and two counters
DiskStats ==
    /\ stat = NoStat
    /\ \E size \in DiskSizes, t \in Totals, u \in Useds :
          stat' = [fn |-> "_disk_stats", size |-> size, total |-> t, used |-> u,
                   ret |-> disk_stats(size, t, u)]
    /\ UNCHANGED <<build, sizes, occCalls, lastOcc, regVars, mdVars, bulkVars>>

\* the caller takes the returned pair
StatReturn ==
    /\ stat # NoStat
    /\ stat' = NoStat
    /\ UNCHANGED <<build, sizes, occCalls, lastOcc, regVars, mdVars, bulkVars>>

MaxSizes    == 2     \* bound on the number of sizes list_sizes() returns
MaxOccCalls == 2     \* bound on the number of occupancy() calls followed

\* sizes a provider may offer
Catalog ==
    { RawSize({"vcpus"}, 0, 4, 2, 20),
      RawSize({"cpu"}, 1, 0, 1, 0),
      RawSize({}, 0, 0, 4, 10),
      RawSize({"cpu", "vcpus"}, 0, 2, 0, 5) }

\* readings of ex_hypervisor_statistics()
Readings ==
    [vcpus : {8, 32}, vcpus_used : {0, 16},
     memory_mb : {8, 32}, memory_mb_used : {4, 40},
     local_gb : {100}, local_gb_used : {0, 60}]

NoReading == [vcpus |-> 0, vcpus_used |-> 0, memory_mb |-> 0, memory_mb_used |-> 0,
              local_gb |-> 0, local_gb_used |-> 0]

NoOccupancy == [set |-> FALSE, total |-> Small(0), remaining |-> Small(0)]

\* the figure occupancy() stores in size.extra['occupancy'] for one size
occupancy_of(size, occ) ==
    LET cpu  == cpu_stats(size, occ.vcpus, occ.vcpus_used)
        ram  == ram_stats(size, occ.memory_mb, occ.memory_mb_used)
        disk == disk_stats(size, occ.local_gb, occ.local_gb_used)
    IN [set |-> TRUE,
        total |-> min(cpu.max, ram.max, disk.max),
        remaining |-> min(cpu.remaining, ram.remaining, disk.remaining)]

\* occupancy() keeping a figure a size already carries
occupancy_cached(occ) ==
    /\ occCalls < MaxOccCalls
    /\ occCalls' = occCalls + 1
    /\ lastOcc' = occ
    /\ sizes' = [i \in 1..Len(sizes) |->
                    IF sizes[i].occupancy.set THEN sizes[i]
                    ELSE [sizes[i] EXCEPT !.occupancy = occupancy_of(sizes[i].raw, occ)]]
    /\ UNCHANGED <<build, stat, regVars, mdVars, bulkVars>>

\* OSMeta.occupancy()
occupancy(occ) ==
    /\ occCalls < MaxOccCalls
    /\ occCalls' = occCalls + 1
    /\ lastOcc' = occ
    /\ sizes' = [i \in 1..Len(sizes) |->
                    [sizes[i] EXCEPT !.occupancy = occupancy_of(sizes[i].raw, occ)]]
    /\ UNCHANGED <<build, stat, regVars, mdVars, bulkVars>>

Occupancy == \E occ \in Readings : occupancy(occ)

SizeLists == UNION {[1..n -> Catalog] : n \in 0..MaxSizes}

CapIdle ==
    /\ stat = NoStat
    /\ occCalls = 0
    /\ lastOcc = NoReading

CapFixed ==
    /\ build = 64
    /\ sizes = <<>>
    /\ CapIdle

-----------------------------------------------------------------------------
(* Image metadata of OSMeta                                                 *)

Machines   == {"machine_1", "machine_2"}
MetaValues == {"True", "False", ""}

\* the metadata dicts an image may carry: "deployed" and one unrelated key
MetadataDicts ==
    UNION {[ks -> MetaValues] : ks \in SUBSET {"deployed"}}
    \cup {DictPut(d, "kernel_id", "k") : d \in UNION {[ks -> MetaValues] : ks \in SUBSET {"deployed"}}}

DictDel(d, k) == [x \in (DOMAIN d) \ {k} |-> d[x]]

\* truth value of dict.get(key): a missing key gives None, an empty string is false
truthy_get(d, k) == k \in DOMAIN d /\ d[k] # ""

MdCall(fn, machine, arg) == [fn |-> fn, machine |-> machine, arg |-> arg]

\* OSMeta.add_metadata_deployed(machine)
add_metadata_deployed(machine) ==
    LET machine_metadata == image_metadata[machine]
        updated == DictPut(machine_metadata, "deployed", "True")
    IN /\ mdOp' = [op |-> "add_metadata_deployed", machine |-> machine,
                   read |-> machine_metadata]
       /\ mdCalls' = << MdCall("ex_get_image_metadata", machine, "None"),
                        MdCall("ex_set_image_metadata", machine, "metadata") >>
       /\ image_metadata' = [image_metadata EXCEPT ![machine] = updated]
       /\ UNCHANGED <<regVars, capVars, bulkVars>>

\* OSMeta.remove_metadata_deployed(machine)
remove_metadata_deployed(machine) ==
    LET machine_metadata == image_metadata[machine]
    IN /\ mdOp' = [op |-> "remove_metadata_deployed", machine |-> machine,
                   read |-> machine_metadata]
       /\ IF truthy_get(machine_metadata, "deployed")
          THEN /\ mdCalls' = << MdCall("ex_get_image_metadata", machine, "None"),
                                MdCall("ex_delete_image_metadata", machine, "deployed") >>
               /\ image_metadata' = [image_metadata EXCEPT
                                        ![machine] = DictDel(@, "deployed")]
          ELSE /\ mdCalls' = << MdCall("ex_get_image_metadata", machine, "None") >>
               /\ UNCHANGED image_metadata
       /\ UNCHANGED <<regVars, capVars, bulkVars>>

AddMetadataDeployed    == \E machine \in Machines : add_metadata_deployed(machine)
RemoveMetadataDeployed == \E machine \in Machines : remove_metadata_deployed(machine)

NoMdOp == [op |-> "none", machine |-> "None", read |-> EmptyDict]

MdFixed ==
    /\ image_metadata = [m \in Machines |-> EmptyDict]
    /\ mdCalls = <<>>
    /\ mdOp = NoMdOp

-----------------------------------------------------------------------------
(* Bulk operations of OSMeta                                                *)

MaxInstances == 2    \* bound on the number of instances all_instances() returns
MaxUsers     == 2    \* bound on the number of names list_usergroup_names() returns

Statuses == {"active", "suspended", "shutoff"}
Users    == {"user_a", "user_b"}
Errors   == {"LibcloudError", "Timeout"}
Outcomes == {"ok"} \cup Errors

\* an instance is known by its position in the list all_instances() returned
InstanceLists ==
    UNION {{[i \in 1..n |-> [id |-> i, status |-> st[i]]] : st \in [1..n -> Statuses]}
           : n \in 0..MaxInstances}
UserLists == UNION {[1..n -> Users] : n \in 0..MaxUsers}

NoInstance == [id |-> 0, status |-> "None"]
Call(fn, instance, username, tenant_name, outcome) ==
    [fn |-> fn, instance |-> instance, username |-> username,
     tenant_name |-> tenant_name, outcome |-> outcome]

NoResult     == [kind |-> "none", value |-> "None"]
Returned     == [kind |-> "return", value |-> "True"]
Raised(e)    == [kind |-> "raise", value |-> e]

\* the loop body stopping every instance, whatever its status
stop_all_call_unfiltered(destroy, instance) ==
    IF destroy THEN "destroy_instance" ELSE "stop_instance"

\* the loop body testing the status before the destroy flag
stop_all_call_status_first(destroy, instance) ==
    IF instance.status # "active" THEN "none"
    ELSE IF destroy THEN "destroy_instance" ELSE "stop_instance"

\* which driver call the loop body of stop_all_instances makes for an instance
stop_all_call(destroy, instance) ==
    IF destroy THEN "destroy_instance"
    ELSE IF instance.status = "active" THEN "stop_instance"
    ELSE "none"

\* a call wrapped in a handler that logs the exception and goes on
after_call_swallowed(outcome, next) == next

\* a call statement with no handler around it: an exception leaves the method
after_call(outcome, next) == IF outcome = "ok" THEN next ELSE "raised"

Attempt(call, next) ==
    /\ calls' = Append(calls, call)
    /\ pc' = after_call(call.outcome, next)
    /\ IF pc' = "raised"
       THEN result' = Raised(call.outcome) /\ UNCHANGED idx
       ELSE idx' = idx + 1 /\ UNCHANGED result

Enter(name, destroy, insts) ==
    /\ pc \in {"idle", "done", "raised"}
    /\ op' = [name |-> name, destroy |-> destroy]
    /\ instances' = insts
    /\ usernames' = <<>>
    /\ idx' = 1
    /\ calls' = <<>>
    /\ result' = NoResult
    /\ pc' = "instances"
    /\ UNCHANGED <<regVars, capVars, mdVars>>

\* stop_all_instances(destroy) is called; all_instances() gives the list
StopAllCalled ==
    \E destroy \in BOOLEAN, insts \in InstanceLists :
        Enter("stop_all_instances", destroy, insts)

\* destroy_all_instances() is called
DestroyAllCalled ==
    \E insts \in InstanceLists : Enter("destroy_all_instances", TRUE, insts)

\* stop_all_instances: one pass of the loop over the instances
StopAllInstance ==
    /\ op.name = "stop_all_instances" /\ pc = "instances" /\ idx <= Len(instances)
    /\ LET instance == instances[idx]
           fn == stop_all_call(op.destroy, instance)
       IN IF fn = "none"
          THEN idx' = idx + 1 /\ UNCHANGED <<pc, calls, result>>
          ELSE \E outcome \in Outcomes :
                  Attempt(Call(fn, instance, "None", "None", outcome), "instances")
    /\ UNCHANGED <<op, instances, usernames, regVars, capVars, mdVars>>

\* stop_all_instances: after the loop, OSAccountDriver() and the test of destroy
StopAllAfterLoop ==
    /\ op.name = "stop_all_instances" /\ pc = "instances" /\ idx > Len(instances)
    /\ IF op.destroy
       THEN /\ \E names \in UserLists : usernames' = names
            /\ pc' = "networks" /\ idx' = 1
            /\ UNCHANGED result
       ELSE /\ pc' = "done" /\ result' = Returned
            /\ UNCHANGED <<usernames, idx>>
    /\ UNCHANGED <<op, instances, calls, regVars, capVars, mdVars>>

\* stop_all_instances: one pass of the loop over the user group names
StopAllNetwork ==
    /\ op.name = "stop_all_instances" /\ pc = "networks" /\ idx <= Len(usernames)
    /\ LET username == usernames[idx]
           tenant_name == username
       IN \E outcome \in Outcomes :
            Attempt(Call("delete_tenant_network", NoInstance, username, tenant_name,
                         outcome), "networks")
    /\ UNCHANGED <<op, instances, usernames, regVars, capVars, mdVars>>

\* stop_all_instances: return True
StopAllReturn ==
    /\ op.name = "stop_all_instances" /\ pc = "networks" /\ idx > Len(usernames)
    /\ pc' = "done" /\ result' = Returned
    /\ UNCHANGED <<op, instances, usernames, idx, calls, regVars, capVars, mdVars>>

\* destroy_all_instances: one pass of the loop over the instances
DestroyAllInstance ==
    /\ op.name = "destroy_all_instances" /\ pc = "instances" /\ idx <= Len(instances)
    /\ \E outcome \in Outcomes :
          Attempt(Call("destroy_instance", instances[idx], "None", "None", outcome),
                  "instances")
    /\ UNCHANGED <<op, instances, usernames, regVars, capVars, mdVars>>

\* destroy_all_instances: after the loop, OSAccountDriver() and list_usergroup_names()
DestroyAllAfterLoop ==
    /\ op.name = "destroy_all_instances" /\ pc = "instances" /\ idx > Len(instances)
    /\ \E names \in UserLists : usernames' = names
    /\ pc' = "networks" /\ idx' = 1
    /\ UNCHANGED <<op, instances, calls, result, regVars, capVars, mdVars>>

\* destroy_all_instances: one pass of the loop over the user group names
DestroyAllNetwork ==
    /\ op.name = "destroy_all_instances" /\ pc = "networks" /\ idx <= Len(usernames)
    /\ LET username == usernames[idx]
           tenant_name == username
       IN \E outcome \in Outcomes :
            Attempt(Call("delete_tenant_network", NoInstance, username, tenant_name,
                         outcome), "networks")
    /\ UNCHANGED <<op, instances, usernames, regVars, capVars, mdVars>>

\* destroy_all_instances: return True
DestroyAllReturn ==
    /\ op.name = "destroy_all_instances" /\ pc = "networks" /\ idx > Len(usernames)
    /\ pc' = "done" /\ result' = Returned
    /\ UNCHANGED <<op, instances, usernames, idx, calls, regVars, capVars, mdVars>>

BulkFixed ==
    /\ pc = "idle"
    /\ op = [name |-> "none", destroy |-> FALSE]
    /\ instances = <<>>
    /\ usernames = <<>>
    /\ idx = 1
    /\ calls = <<>>
    /\ result = NoResult

-----------------------------------------------------------------------------
(* Specifications, one per part of the module                               *)

RegistryInit == RegInit /\ CapFixed /\ MdFixed /\ BulkFixed
RegistryNext ==
    \/ \E cls \in Classes, driver \in Drivers : GetMeta(cls, driver)
    \/ \E cls \in Classes, driver \in Drivers, admin_driver \in {"None", "admin_driver"} :
          CreateMeta(cls, driver, admin_driver)
    \/ \E cls \in Classes : Reset(cls)
    \/ \E meta \in 1..Len(created) : ResetThroughInstance(meta)
SpecRegistry == RegistryInit /\ [][RegistryNext]_vars

StatsInit ==
    /\ build \in {32, 64}
    /\ sizes = <<>>
    /\ CapIdle
    /\ RegInit /\ MdFixed /\ BulkFixed
StatsNext ==
    \/ CpuStats
    \/ RamStats
    \/ DiskStats
    \/ StatReturn
SpecStats == StatsInit /\ [][StatsNext]_vars

OccupancyInit ==
    /\ build \in {32, 64}
    /\ \E raws \in SizeLists :
          sizes = [i \in 1..Len(raws) |-> [raw |-> raws[i], occupancy |-> NoOccupancy]]
    /\ CapIdle
    /\ RegInit /\ MdFixed /\ BulkFixed
OccupancyNext == Occupancy
SpecOccupancy == OccupancyInit /\ [][OccupancyNext]_vars

MetadataInit ==
    /\ image_metadata \in [Machines -> MetadataDicts]
    /\ mdCalls = <<>>
    /\ mdOp = NoMdOp
    /\ RegInit /\ CapFixed /\ BulkFixed
MetadataNext == AddMetadataDeployed \/ RemoveMetadataDeployed
SpecMetadata == MetadataInit /\ [][MetadataNext]_vars

BulkInit == BulkFixed /\ RegInit /\ CapFixed /\ MdFixed
BulkNext ==
    \/ StopAllCalled
    \/ StopAllInstance
    \/ StopAllAfterLoop
    \/ StopAllNetwork
    \/ StopAllReturn
    \/ DestroyAllCalled
    \/ DestroyAllInstance
    \/ DestroyAllAfterLoop
    \/ DestroyAllNetwork
    \/ DestroyAllReturn
SpecBulk == BulkInit /\ [][BulkNext]_vars

-----------------------------------------------------------------------------
(* Properties                                                               *)

Range(f) == {f[i] : i \in DOMAIN f}

\* q is the floor of a / b, b # 0
IsFloor(q, a, b) ==
    /\ q.hi = 0
    /\ IF b > 0 THEN q.lo * b <= a /\ a < (q.lo + 1) * b
               ELSE q.lo * b >= a /\ a > (q.lo + 1) * b

\* m is the least of the numbers in S
IsLeast(m, S) == m \in S /\ \A x \in S : ~Less(x, m)

\* the per-size footprint of the dimension the last stats call was about
Footprint ==
    CASE stat.fn = "_cpu_stats"  -> (IF "cpu" \in stat.size.attrs THEN stat.size.cpu
                                     ELSE IF "vcpus" \in stat.size.attrs THEN stat.size.vcpus
                                     ELSE 0 - 1)
      [] stat.fn = "_ram_stats"  -> stat.size.ram
      [] stat.fn = "_disk_stats" -> stat.size.disk
      [] OTHER                   -> 0

\* C1: two successive get_meta(d) calls on the same class return the same cached
\* instance and the second constructs nothing; after reset(), the next get_meta(d)
\* constructs a new instance distinct from the one returned before the reset.
C1_GetMetaCachedUntilReset ==
    (last.op = "get_meta" /\ last.gcls = last.cls /\ last.gdriver = last.driver) =>
        /\ last.follows = "repeat" => (last.result = last.gresult /\ ~last.constructed)
        /\ last.follows = "after_reset" => (last.constructed /\ last.result # last.gresult)

\* C2: of the Meta instances constructed since the registry was last reset, no two
\* were constructed for the same (provider, identity) key.
C2_OneMetaPerKey ==
    \A i, j \in (epoch + 1)..Len(created) :
        created[i].key = created[j].key => i = j

\* C3: right after reset(), called through any class or instance, no entry is
\* reachable through the metas mapping of any Meta class nor through get_metas().
C3_ResetClearsEveryClass ==
    last.op = "reset" =>
        /\ \A cls \in Classes : ClsMetas(cls) = EmptyDict
        /\ get_metas = EmptyDict

\* C4 (as claimed): for every non-zero footprint f, negative ones included, the
\* returned pair is max = floor(t / f) and remaining = floor((t - u) / f).
C4_FloorForEveryNonZeroFootprint ==
    (stat.fn # "none" /\ Footprint # 0) =>
        /\ stat.ret.raised = "None"
        /\ IsFloor(stat.ret.max, stat.total, Footprint)
        /\ IsFloor(stat.ret.remaining, stat.total - stat.used, Footprint)

\* what floor() makes of the sentinel sys.maxint: 2^63 on a 64-bit build, where no
\* double holds 2^63 - 1, and sys.maxint itself (2^31 - 1) on a 32-bit build
FlooredSentinel == IF build = 64 THEN [hi |-> 1, lo |-> 0] ELSE Small(2147483647)

\* C4 (amended): for every non-zero footprint f, remaining = floor((t - u) / f); for
\* f > 0, max = floor(t / f); for f < 0, the CPU sentinel -1 included, max is the
\* unbounded sentinel as floor() returns it.  CPU t=32, u=16, f=4 gives (8, 4).
C4_FloorForPositiveSentinelForNegative ==
    /\ (stat.fn # "none" /\ Footprint # 0) =>
          /\ stat.ret.raised = "None"
          /\ IsFloor(stat.ret.remaining, stat.total - stat.used, Footprint)
          /\ Footprint > 0 => IsFloor(stat.ret.max, stat.total, Footprint)
          /\ Footprint < 0 => stat.ret.max = FlooredSentinel
    /\ (stat.fn = "_cpu_stats" /\ stat.total = 32 /\ stat.used = 16 /\ Footprint = 4) =>
          (stat.ret.max = Small(8) /\ stat.ret.remaining = Small(4))

\* a size without a CPU field (footprint -1) on an overcommitted hypervisor
C4_Witness ==
    /\ stat.fn = "_cpu_stats" /\ stat.size.attrs = {}
    /\ stat.total = 32 /\ stat.used = 40
    /\ stat.ret.remaining = Small(8)
    /\ Less(Small(32), stat.ret.max)

\* C5 (as claimed): for a footprint of 0 no division by zero occurs and both max
\* and remaining equal sys.maxint.
C5_ZeroFootprintBothSentinel ==
    (stat.fn # "none" /\ Footprint = 0) =>
        /\ stat.ret.raised = "None"
        /\ stat.ret.max = sys_maxint
        /\ stat.ret.remaining = sys_maxint

\* C5 (amended): for a footprint of 0 no division by zero occurs, remaining equals
\* sys.maxint and max equals floor(sys.maxint): sys.maxint on a 32-bit build,
\* sys.maxint + 1 on a 64-bit build.
C5_ZeroFootprintSentinelThroughFloor ==
    (stat.fn # "none" /\ Footprint = 0) =>
        /\ stat.ret.raised = "None"
        /\ stat.ret.remaining = sys_maxint
        /\ build = 32 => stat.ret.max = sys_maxint
        /\ build = 64 => stat.ret.max = [hi |-> sys_maxint.hi, lo |-> sys_maxint.lo + 1]

\* a size with no RAM footprint on a 64-bit build
C5_Witness ==
    /\ stat.fn = "_ram_stats" /\ stat.size.ram = 0 /\ build = 64
    /\ stat.total = 32 /\ stat.used = 16
    /\ stat.ret.raised = "None"
    /\ Less(stat.ret.remaining, stat.ret.max)

\* C6: after occupancy(), every size carries total = the least of the three max
\* figures and remaining = the least of the three remaining figures, all computed
\* for that size from the reading this call took, whatever it carried before.
C6_OccupancyIsMinimumOfCurrentReading ==
    occCalls > 0 =>
        \A i \in 1..Len(sizes) :
            LET raw  == sizes[i].raw
                cpu  == cpu_stats(raw, lastOcc.vcpus, lastOcc.vcpus_used)
                ram  == ram_stats(raw, lastOcc.memory_mb, lastOcc.memory_mb_used)
                disk == disk_stats(raw, lastOcc.local_gb, lastOcc.local_gb_used)
            IN /\ sizes[i].occupancy.set
               /\ IsLeast(sizes[i].occupancy.total, {cpu.max, ram.max, disk.max})
               /\ IsLeast(sizes[i].occupancy.remaining,
                          {cpu.remaining, ram.remaining, disk.remaining})

\* a second occupancy() call, on two sizes with different figures
C6_Witness ==
    /\ occCalls = 2 /\ Len(sizes) = 2
    /\ sizes[1].occupancy.set /\ sizes[2].occupancy.set
    /\ Less(sizes[1].occupancy.remaining, sizes[2].occupancy.remaining)
    /\ Less(sizes[1].occupancy.total, sizes[2].occupancy.total)

ExpectedDestroyCalls ==
    [i \in 1..(Len(instances) + Len(usernames)) |->
        IF i <= Len(instances)
        THEN Call("destroy_instance", instances[i], "None", "None", "ok")
        ELSE Call("delete_tenant_network", NoInstance, usernames[i - Len(instances)],
                  usernames[i - Len(instances)], "ok")]

\* C8: when stop_all_instances(destroy=True) or destroy_all_instances() returns, the
\* calls made are destroy_instance on every instance whatever its status, then
\* delete_tenant_network for every user group name, and no stop_instance.
C8_DestroyEverythingThenNetworks ==
    (pc = "done" /\ (op.name = "destroy_all_instances"
                     \/ (op.name = "stop_all_instances" /\ op.destroy))) =>
        /\ calls = ExpectedDestroyCalls
        /\ result = Returned

\* stop_all_instances(destroy=True) done on two instances, one not active, two groups
C8_Witness ==
    /\ pc = "done" /\ op.name = "stop_all_instances" /\ op.destroy
    /\ Len(instances) = 2 /\ instances[1].status = "shutoff"
    /\ Len(usernames) = 2 /\ Len(calls) = 4

\* C9: remove_metadata_deployed makes no delete and no set call when the metadata
\* lacks "deployed" and leaves the metadata as it was; when the key is present it
\* makes exactly one delete call, for the key "deployed".
C9_RemoveDeletesWhenKeyPresent ==
    mdOp.op = "remove_metadata_deployed" =>
        LET deletes == {i \in 1..Len(mdCalls) : mdCalls[i].fn = "ex_delete_image_metadata"}
            sets    == {i \in 1..Len(mdCalls) : mdCalls[i].fn = "ex_set_image_metadata"}
        IN IF "deployed" \notin DOMAIN mdOp.read
           THEN /\ deletes = {} /\ sets = {}
                /\ image_metadata[mdOp.machine] = mdOp.read
           ELSE /\ Cardinality(deletes) = 1
                /\ \A i \in deletes : mdCalls[i].arg = "deployed"
                                      /\ mdCalls[i].machine = mdOp.machine

\* C10: a stop or destroy call that fails is the last call the operation makes: the
\* error it raised is what the caller gets, the calls before it succeeded on earlier
\* instances and stay as they are, no network is deleted and True is not returned.
C10_InstanceFailureAborts ==
    \A i \in 1..Len(calls) :
        (calls[i].outcome # "ok" /\ calls[i].fn \in {"stop_instance", "destroy_instance"}) =>
            /\ i = Len(calls)
            /\ pc = "raised"
            /\ result = Raised(calls[i].outcome)
            /\ result # Returned
            /\ idx = calls[i].instance.id
            /\ \A j \in 1..Len(calls) : calls[j].fn # "delete_tenant_network"
            /\ \A j \in 1..(i - 1) : /\ calls[j].outcome = "ok"
                                     /\ calls[j].instance.id < calls[i].instance.id

\* a failure on the first of two active instances
C10_Witness ==
    /\ pc = "raised" /\ op.name = "stop_all_instances" /\ ~op.destroy
    /\ Len(instances) = 2
    /\ instances[1].status = "active" /\ instances[2].status = "active"
    /\ Len(calls) = 1 /\ calls[1].outcome = "Timeout"

=============================================================================
